---- MODULE Spec2Model ----
(***************************************************************************)
(* Model of github.com/cybozu-go/options: the generic container            *)
(* Option[T] (options.go), its constructors, accessors, Map, the JSON and  *)
(* SQL adapters and Equal.                                                 *)
(*                                                                         *)
(* A Go value is modelled as a record [t |-> dynamic type, v |-> payload]. *)
(* The type parameter T of the Option under study is chosen in Init and    *)
(* never changes.  The Go types covered are                                *)
(*   "int64", "int", "float64", "string", "slice" ([]int64),               *)
(*   "ptr" (pointer to int64) and "any" (the empty interface).             *)
(***************************************************************************)
EXTENDS Integers, Sequences, FiniteSets, TLC

VARIABLES T, o, p, ret

vars == <<T, o, p, ret>>

(* ------------------------------ bounds -------------------------------- *)

\* integers used as payloads are 0..MaxInt
MaxInt == 1

\* slices and JSON arrays have at most MaxLen elements
MaxLen == 1

(* ------------------------- the universe of Go values ------------------ *)

Types == {"int64", "int", "float64", "string", "slice", "ptr", "any"}

Ints == 0..MaxInt

\* floats are counted in halves: h = 3 is 1.5; NaN is a value of its own
Halves == 0..(2 * MaxInt + 1)

NaN == [t |-> "float64", v |-> [nan |-> TRUE, h |-> 0]]

Float(h) == [t |-> "float64", v |-> [nan |-> FALSE, h |-> h]]

Int64(n) == [t |-> "int64", v |-> n]

GoInt(n) == [t |-> "int", v |-> n]

\* "\xff" stands for a string holding a byte that is not valid UTF-8
Strs == {"", "a", "\\xff"}

Str(s) == [t |-> "string", v |-> s]

NilSlice == [t |-> "slice", v |-> [nil |-> TRUE, elems |-> <<>>]]

Slice(es) == [t |-> "slice", v |-> [nil |-> FALSE, elems |-> es]]

\* the slice type json decodes an array into when the target is an interface
AnySlice(es) == [t |-> "[]any", v |-> [nil |-> FALSE, elems |-> es]]

\* all sequences over S of length at most n
RECURSIVE SeqsUpTo(_, _)
SeqsUpTo(S, n) ==
    IF n = 0 THEN {<<>>}
    ELSE LET shorter == SeqsUpTo(S, n - 1)
         IN  shorter \cup {Append(s, x) : s \in shorter, x \in S}

\* a *int64 is its address <<allocation site, pointee>>; two sites holding
\* the same number are distinct pointers to equal values
NilPtr == [t |-> "ptr", v |-> <<"nil", 0>>]

Ptr(site, n) == [t |-> "ptr", v |-> <<site, n>>]

Sites == {"x", "y"}

Pointee(x) == Int64(x.v[2])

\* the nil interface value
NilIface == [t |-> "nil", v |-> 0]

\* the values of static type ty that callers pass in
Values(ty) ==
    CASE ty = "int64"   -> {Int64(n) : n \in Ints}
      [] ty = "int"     -> {GoInt(n) : n \in Ints}
      [] ty = "float64" -> {NaN} \cup {Float(h) : h \in Halves}
      [] ty = "string"  -> {Str(s) : s \in Strs}
      [] ty = "slice"   -> {NilSlice} \cup {Slice(es) : es \in SeqsUpTo(Ints, MaxLen)}
      [] ty = "ptr"     -> {NilPtr} \cup {Ptr(s, n) : s \in Sites, n \in Ints}
      [] ty = "any"     -> {NilIface} \cup {Int64(n) : n \in Ints} \cup {Str("a")}

\* the zero value of type ty
Zero(ty) ==
    CASE ty = "int64"   -> Int64(0)
      [] ty = "int"     -> GoInt(0)
      [] ty = "float64" -> Float(0)
      [] ty = "string"  -> Str("")
      [] ty = "slice"   -> NilSlice
      [] ty = "ptr"     -> NilPtr
      [] ty = "any"     -> NilIface

\* a *T: nil or a reference to a value
NilRef == [isnil |-> TRUE, elem |-> NilIface]

Ref(x) == [isnil |-> FALSE, elem |-> x]

(* ------------------------------ errors -------------------------------- *)

NoErr == [kind |-> "nil", typ |-> "", wraps |-> "", val |-> NilIface]

IsErr(e) == e.kind # "nil"

\* what fmt's %T prints for a value: its dynamic type
TypeName(x) == x.t

(* ------------------------- options.go: Option ------------------------- *)

New(value) == [present |-> TRUE, value |-> value]

None(ty) == [present |-> FALSE, value |-> Zero(ty)]

\* FromPointer wrapping the zero value when the pointer is nil
FromPointer_NilIsZero(ty, ptr) ==
    IF ptr.isnil THEN New(Zero(ty)) ELSE New(ptr.elem)

FromPointer(ty, ptr) ==
    IF ptr.isnil THEN None(ty) ELSE New(ptr.elem)

FromTuple(ty, value, present) ==
    IF present THEN New(value) ELSE None(ty)

IsPresent(opt) == opt.present

IsNone(opt) == ~opt.present

\* a call either returns a value or panics
Returns(x) == [panic |-> FALSE, val |-> x]

Panics == [panic |-> TRUE, val |-> NilIface]

\* Unwrap without the presence check
Unwrap_NoCheck(opt) == Returns(opt.value)

Unwrap(opt) ==
    IF opt.present THEN Returns(opt.value) ELSE Panics

UnwrapOr(opt, defaultValue) ==
    IF opt.present THEN opt.value ELSE defaultValue

UnwrapOrZero(opt) == opt.value

Pointer(opt) ==
    IF opt.present THEN Ref(opt.value) ELSE NilRef

(* ------------------------------ options.go: Map ----------------------- *)

\* the functions handed to Map; each is total on every value
Funcs == {"id", "zero", "size"}

\* the result type B of f : A -> B
ResultType(f, A) == IF f = "id" THEN A ELSE "int64"

Apply(f, x) ==
    CASE f = "id"   -> x
      [] f = "zero" -> Int64(0)
      [] f = "size" ->
            IF x.t \in {"int64", "int"} THEN Int64(x.v + 1)
            ELSE IF x.t \in {"slice", "[]any"} THEN Int64(Len(x.v.elems))
            ELSE Int64(0)

\* Map applying f before it looks at the flag
Map_AppliesFirst(A, opt, f) ==
    IF opt.present
    THEN [res |-> New(Apply(f, opt.value)), calls |-> <<opt.value>>]
    ELSE [res |-> None(ResultType(f, A)), calls |-> <<opt.value>>]

\* calls is the sequence of arguments f was invoked on, in order
Map(A, opt, f) ==
    IF opt.present
    THEN [res |-> New(Apply(f, opt.value)), calls |-> <<opt.value>>]
    ELSE [res |-> None(ResultType(f, A)), calls |-> <<>>]

(* ------------------------------ options.go: String ------------------- *)

Digit(d) ==
    CASE d = 0 -> "0" [] d = 1 -> "1" [] d = 2 -> "2" [] d = 3 -> "3"
      [] d = 4 -> "4" [] d = 5 -> "5" [] d = 6 -> "6" [] d = 7 -> "7"
      [] d = 8 -> "8" [] d = 9 -> "9"

\* a natural number in decimal
RECURSIVE Itoa(_)
Itoa(n) == IF n < 10 THEN Digit(n) ELSE Itoa(n \div 10) \o Digit(n % 10)

\* a float64 given in halves, as %v prints it
Ftoa(h) == IF h % 2 = 0 THEN Itoa(h \div 2) ELSE Itoa(h \div 2) \o ".5"

\* the strings of a sequence, separated by spaces
RECURSIVE Joined(_)
Joined(strs) ==
    IF strs = <<>> THEN ""
    ELSE IF Len(strs) = 1 THEN strs[1]
    ELSE strs[1] \o " " \o Joined(Tail(strs))

\* fmt.Sprint of one value
Sprint(x) ==
    CASE x.t = "nil"     -> "<nil>"
      [] x.t \in {"int64", "int"} -> Itoa(x.v)
      [] x.t = "float64" -> IF x.v.nan THEN "NaN" ELSE Ftoa(x.v.h)
      [] x.t = "string"  -> x.v
      [] x.t = "slice"   ->
            "[" \o Joined([i \in 1..Len(x.v.elems) |-> Itoa(x.v.elems[i])]) \o "]"
      [] x.t = "[]any"   ->
            "[" \o Joined([i \in 1..Len(x.v.elems) |-> Ftoa(x.v.elems[i].v.h)]) \o "]"
      [] x.t = "ptr"     ->
            IF x = NilPtr THEN "<nil>" ELSE "0x" \o x.v[1] \o Itoa(x.v[2])

String(opt) ==
    IF opt.present THEN Sprint(opt.value) ELSE ""

(* ------------------------------ encoding/json ------------------------- *)

\* a JSON text: null, a number (in halves), a string, an array of numbers,
\* or "bad", a text that is not JSON at all
JNull == [j |-> "null", h |-> 0, s |-> "", a |-> <<>>]

JBad == [j |-> "bad", h |-> 0, s |-> "", a |-> <<>>]

JNum(h) == [j |-> "num", h |-> h, s |-> "", a |-> <<>>]

JStr(s) == [j |-> "str", h |-> 0, s |-> s, a |-> <<>>]

JArr(a) == [j |-> "arr", h |-> 0, s |-> "", a |-> a]

\* json replaces bytes that are not valid UTF-8 by U+FFFD, both ways
ToValidUTF8(s) == IF s = "\\xff" THEN "\\ufffd" ELSE s

Encoded(j) == [err |-> "", out |-> j]

EncodeFails(e) == [err |-> e, out |-> JBad]

\* json.Marshal of a value
JsonMarshal(x) ==
    CASE x.t = "nil"       -> Encoded(JNull)
      [] x.t \in {"int64", "int"} -> Encoded(JNum(2 * x.v))
      [] x.t = "float64"   ->
            IF x.v.nan THEN EncodeFails("UnsupportedValueError")
            ELSE Encoded(JNum(x.v.h))
      [] x.t = "string"    -> Encoded(JStr(ToValidUTF8(x.v)))
      [] x.t = "slice"     ->
            IF x.v.nil THEN Encoded(JNull)
            ELSE Encoded(JArr([i \in 1..Len(x.v.elems) |-> 2 * x.v.elems[i]]))
      [] x.t = "[]any"     ->
            IF \E i \in 1..Len(x.v.elems) : x.v.elems[i].v.nan
            THEN EncodeFails("UnsupportedValueError")
            ELSE Encoded(JArr([i \in 1..Len(x.v.elems) |-> x.v.elems[i].v.h]))
      [] x.t = "ptr"       ->
            IF x = NilPtr THEN Encoded(JNull)
            ELSE Encoded(JNum(2 * Pointee(x).v))

\* json.Marshal of a *T
JsonMarshalRef(r) ==
    IF r.isnil THEN Encoded(JNull) ELSE JsonMarshal(r.elem)

Decoded(x) == [err |-> "", val |-> x]

DecodeFails(e) == [err |-> e, val |-> NilIface]

IsEven(h) == h % 2 = 0

\* json decoding a text that is JSON and not null into a fresh value of type ty
JsonDecode(ty, b) ==
    CASE ty \in {"int64", "int"} ->
            IF b.j = "num" /\ IsEven(b.h)
            THEN Decoded([t |-> ty, v |-> b.h \div 2])
            ELSE DecodeFails("UnmarshalTypeError")
      [] ty = "float64" ->
            IF b.j = "num" THEN Decoded(Float(b.h))
            ELSE DecodeFails("UnmarshalTypeError")
      [] ty = "string" ->
            IF b.j = "str" THEN Decoded(Str(ToValidUTF8(b.s)))
            ELSE DecodeFails("UnmarshalTypeError")
      [] ty = "slice" ->
            IF b.j = "arr" /\ \A i \in 1..Len(b.a) : IsEven(b.a[i])
            THEN Decoded(Slice([i \in 1..Len(b.a) |-> b.a[i] \div 2]))
            ELSE DecodeFails("UnmarshalTypeError")
      [] ty = "ptr" ->
            IF b.j = "num" /\ IsEven(b.h)
            THEN Decoded(Ptr("new", b.h \div 2))
            ELSE DecodeFails("UnmarshalTypeError")
      [] ty = "any" ->
            CASE b.j = "num" -> Decoded(Float(b.h))
              [] b.j = "str" -> Decoded(Str(ToValidUTF8(b.s)))
              [] b.j = "arr" ->
                    Decoded(AnySlice([i \in 1..Len(b.a) |-> Float(b.a[i])]))

\* var p *T; json.Unmarshal(bytes, &p)
JsonUnmarshalRef(ty, bytes) ==
    IF bytes.j = "bad" THEN [err |-> "SyntaxError", p |-> NilRef]
    ELSE IF bytes.j = "null" THEN [err |-> "", p |-> NilRef]
    ELSE LET d == JsonDecode(ty, bytes)
         IN  IF d.err # "" THEN [err |-> d.err, p |-> NilRef]
             ELSE [err |-> "", p |-> Ref(d.val)]

(* ------------------- options.go: MarshalJSON, UnmarshalJSON ----------- *)

\* MarshalJSON encoding the stored value whatever the flag says
MarshalJSON_StoredValue(opt) == JsonMarshal(opt.value)

MarshalJSON(opt) == JsonMarshalRef(Pointer(opt))

UnmarshalJSON(ty, opt, bytes) ==
    LET r == JsonUnmarshalRef(ty, bytes)
    IN  IF r.err # ""
        THEN [o   |-> opt,
              err |-> [kind |-> "Option.UnmarshalJSON", typ |-> TypeName(opt.value),
                       wraps |-> r.err, val |-> NilIface]]
        ELSE [o |-> FromPointer(ty, r.p), err |-> NoErr]

(* ------------------------------ database/sql/driver ------------------- *)

\* the types driver.IsValue accepts as they are
DriverTypes == {"int64", "float64", "string"}

Converted(x) == [err |-> "", val |-> x]

ConvertFails(e) == [err |-> e, val |-> NilIface]

\* driver.DefaultParameterConverter.ConvertValue
ConvertValue(src) ==
    CASE src.t = "nil"          -> Converted(NilIface)
      [] src.t \in DriverTypes  -> Converted(src)
      [] src.t = "int"          -> Converted(Int64(src.v))
      [] src.t = "ptr"          ->
            IF src = NilPtr THEN Converted(NilIface)
            ELSE Converted(Pointee(src))
      [] src.t \in {"slice", "[]any"} -> ConvertFails("unsupported type")

\* the type assertion av.(ty): an interface type accepts every non-nil value,
\* any other type only a value of exactly that type
TypeAssert(av, ty) ==
    IF ty = "any" THEN av.t # "nil" ELSE av.t = ty

(* ------------------------ options.go: Value, Scan --------------------- *)

\* Value binding the stored value whatever the flag says
Value_StoredValue(opt) == [val |-> opt.value, err |-> NoErr]

Value(opt) ==
    IF opt.present
    THEN [val |-> opt.value, err |-> NoErr]
    ELSE [val |-> NilIface, err |-> NoErr]

\* Scan without the test for the null token
Scan_NoNullTest(ty, opt, src) ==
    LET c == ConvertValue(src)
    IN  IF c.err # ""
        THEN [o   |-> opt,
              err |-> [kind |-> "Option.Scan: failed to convert value from SQL driver",
                       typ |-> TypeName(opt.value), wraps |-> c.err,
                       val |-> NilIface]]
        ELSE IF ~TypeAssert(c.val, ty)
        THEN [o   |-> opt,
              err |-> [kind |-> "Option.Scan: failed to convert value",
                       typ |-> TypeName(opt.value), wraps |-> "",
                       val |-> c.val]]
        ELSE [o |-> New(c.val), err |-> NoErr]

\* Scan resetting the receiver before it converts, so that a failed call
\* leaves None behind
Scan_ResetsFirst(ty, opt, src) ==
    IF src = NilIface THEN [o |-> None(ty), err |-> NoErr]
    ELSE LET c == ConvertValue(src)
         IN  IF c.err # ""
             THEN [o   |-> None(ty),
                   err |-> [kind |-> "Option.Scan: failed to convert value from SQL driver",
                            typ |-> TypeName(opt.value), wraps |-> c.err,
                            val |-> NilIface]]
             ELSE IF ~TypeAssert(c.val, ty)
             THEN [o   |-> None(ty),
                   err |-> [kind |-> "Option.Scan: failed to convert value",
                            typ |-> TypeName(opt.value), wraps |-> "",
                            val |-> c.val]]
             ELSE [o |-> New(c.val), err |-> NoErr]

Scan(ty, opt, src) ==
    IF src = NilIface THEN [o |-> None(ty), err |-> NoErr]
    ELSE LET c == ConvertValue(src)
         IN  IF c.err # ""
             THEN [o   |-> opt,
                   err |-> [kind |-> "Option.Scan: failed to convert value from SQL driver",
                            typ |-> TypeName(opt.value), wraps |-> c.err,
                            val |-> NilIface]]
             ELSE IF ~TypeAssert(c.val, ty)
             THEN [o   |-> opt,
                   err |-> [kind |-> "Option.Scan: failed to convert value",
                            typ |-> TypeName(opt.value), wraps |-> "",
                            val |-> c.val]]
             ELSE [o |-> New(c.val), err |-> NoErr]

(* ------------------------------ options.go: Equal --------------------- *)

\* reflect.DeepEqual on two values of the same static type
RECURSIVE DeepEqual(_, _)
DeepEqual(x, y) ==
    IF x.t # y.t THEN FALSE
    ELSE CASE x.t = "nil" -> TRUE
           [] x.t \in {"int64", "int", "string"} -> x.v = y.v
           [] x.t = "float64" -> ~x.v.nan /\ ~y.v.nan /\ x.v.h = y.v.h
           [] x.t = "slice" ->
                 /\ x.v.nil = y.v.nil
                 /\ x.v.elems = y.v.elems
           [] x.t = "[]any" ->
                 /\ x.v.nil = y.v.nil
                 /\ Len(x.v.elems) = Len(y.v.elems)
                 /\ \A i \in 1..Len(x.v.elems) : DeepEqual(x.v.elems[i], y.v.elems[i])
           [] x.t = "ptr" ->
                 \/ x.v = y.v
                 \/ /\ x # NilPtr
                    /\ y # NilPtr
                    /\ DeepEqual(Pointee(x), Pointee(y))

\* Equal comparing with Go's == instead of reflect.DeepEqual
Equal_Shallow(opt, other2) == opt = other2

\* Equal answering false as soon as one side is None
Equal_NoneNeverEqual(opt, other2) ==
    /\ opt.present
    /\ other2.present
    /\ DeepEqual(opt.value, other2.value)

Equal(opt, other2) ==
    IF opt.present # other2.present THEN FALSE
    ELSE IF ~opt.present THEN TRUE
    ELSE DeepEqual(opt.value, other2.value)

(* ------------------------------ the program --------------------------- *)
(* o is an Option[T] variable of the caller; p tells whether the caller    *)
(* holds the pointer o.Pointer() returned ("held": it is &o.value); ret    *)
(* records the last call, its arguments and its results.                   *)

\* what callers pass to Scan and to UnmarshalJSON
Srcs == UNION {Values(ty) : ty \in Types}

JElems == {1} \cup {2 * n : n \in Ints}

JsonTexts ==
    {JNull, JBad}
    \cup {JNum(h) : h \in Halves}
    \cup {JStr(s) : s \in Strs}
    \cup {JArr(a) : a \in SeqsUpTo(JElems, MaxLen)}

\* the Option[ty] values a caller can hold: present ones, None, and the ones
\* left behind by a write through a pointer taken before the Option was reset
Options(ty) ==
    {New(x) : x \in Values(ty)}
    \cup {[present |-> FALSE, value |-> x] : x \in Values(ty)}

Call(op, arg, out) == [op |-> op, arg |-> arg, out |-> out]

Init ==
    /\ T \in Types
    /\ o = [present |-> FALSE, value |-> Zero(T)]
    /\ p = "nil"
    /\ ret = Call("init", <<>>, <<>>)

\* o = options.New(value)
CallNew ==
    \E value \in Values(T) :
        /\ o' = New(value)
        /\ ret' = Call("New", [value |-> value], <<>>)
        /\ UNCHANGED <<T, p>>

\* o = options.None[T]()
CallNone ==
    /\ o' = None(T)
    /\ ret' = Call("None", <<>>, <<>>)
    /\ UNCHANGED <<T, p>>

\* o = options.FromPointer(ptr)
CallFromPointer ==
    \E ptr \in {NilRef} \cup {Ref(x) : x \in Values(T)} :
        /\ o' = FromPointer(T, ptr)
        /\ ret' = Call("FromPointer", [ptr |-> ptr], <<>>)
        /\ UNCHANGED <<T, p>>

\* o = options.FromTuple(value, present)
CallFromTuple ==
    \E value \in Values(T), present \in BOOLEAN :
        /\ o' = FromTuple(T, value, present)
        /\ ret' = Call("FromTuple", [value |-> value, present |-> present], <<>>)
        /\ UNCHANGED <<T, p>>

CallIsPresent ==
    /\ ret' = Call("IsPresent", <<>>, [b |-> IsPresent(o)])
    /\ UNCHANGED <<T, o, p>>

CallIsNone ==
    /\ ret' = Call("IsNone", <<>>, [b |-> IsNone(o)])
    /\ UNCHANGED <<T, o, p>>

CallUnwrap ==
    /\ ret' = Call("Unwrap", <<>>, Unwrap(o))
    /\ UNCHANGED <<T, o, p>>

CallUnwrapOr ==
    \E defaultValue \in Values(T) :
        /\ ret' = Call("UnwrapOr", [defaultValue |-> defaultValue],
                       [val |-> UnwrapOr(o, defaultValue)])
        /\ UNCHANGED <<T, o, p>>

CallUnwrapOrZero ==
    /\ ret' = Call("UnwrapOrZero", <<>>, [val |-> UnwrapOrZero(o)])
    /\ UNCHANGED <<T, o, p>>

\* p := o.Pointer(); when o is present p is &o.value
CallPointer ==
    /\ p' = IF Pointer(o).isnil THEN "nil" ELSE "held"
    /\ ret' = Call("Pointer", <<>>, [ptr |-> Pointer(o)])
    /\ UNCHANGED <<T, o>>

\* *p = value, through the pointer an earlier o.Pointer() returned
WritePointer ==
    /\ p = "held"
    /\ \E value \in Values(T) :
        /\ o' = [o EXCEPT !.value = value]
        /\ ret' = Call("WritePointer", [value |-> value], <<>>)
    /\ UNCHANGED <<T, p>>

\* options.Map(o, f)
CallMap ==
    \E f \in Funcs :
        /\ ret' = Call("Map", [f |-> f, o |-> o], Map(T, o, f))
        /\ UNCHANGED <<T, o, p>>

CallMarshalJSON ==
    /\ ret' = Call("MarshalJSON", [o |-> o], MarshalJSON(o))
    /\ UNCHANGED <<T, o, p>>

\* o.UnmarshalJSON(bytes); from holds the Option whose MarshalJSON output
\* bytes is, when the previous call produced it
CallUnmarshalJSON ==
    LET fresh == IF ret.op = "MarshalJSON" /\ ret.out.err = ""
                 THEN {ret.out.out} ELSE {}
    IN  \E bytes \in JsonTexts \cup fresh :
            LET r == UnmarshalJSON(T, o, bytes)
            IN  /\ o' = r.o
                /\ ret' = Call("UnmarshalJSON",
                               [bytes |-> bytes,
                                from  |-> IF bytes \in fresh THEN <<ret.arg.o>> ELSE <<>>],
                               [err |-> r.err])
                /\ UNCHANGED <<T, p>>

CallValue ==
    /\ ret' = Call("Value", [o |-> o], Value(o))
    /\ UNCHANGED <<T, o, p>>

\* o.Scan(src); from holds the Option whose Value() src is, when the
\* previous call produced it
CallScan ==
    LET bound == IF ret.op = "Value" THEN {ret.out.val} ELSE {}
    IN  \E src \in Srcs \cup bound :
            LET r == Scan(T, o, src)
            IN  /\ o' = r.o
                /\ ret' = Call("Scan",
                               [src  |-> src,
                                from |-> IF src \in bound THEN <<ret.arg.o>> ELSE <<>>],
                               [err |-> r.err])
                /\ UNCHANGED <<T, p>>

CallString ==
    /\ ret' = Call("String", <<>>, [s |-> String(o)])
    /\ UNCHANGED <<T, o, p>>

\* o.Equal(other) and other.Equal(o), for another Option[T] of the caller
CallEqual ==
    \E other \in Options(T) :
        /\ ret' = Call("Equal", [other |-> other],
                       [b |-> Equal(o, other), flipped |-> Equal(other, o)])
        /\ UNCHANGED <<T, o, p>>

Next ==
    \/ CallNew
    \/ CallNone
    \/ CallFromPointer
    \/ CallFromTuple
    \/ CallIsPresent
    \/ CallIsNone
    \/ CallUnwrap
    \/ CallUnwrapOr
    \/ CallUnwrapOrZero
    \/ CallPointer
    \/ WritePointer
    \/ CallMap
    \/ CallMarshalJSON
    \/ CallUnmarshalJSON
    \/ CallValue
    \/ CallScan
    \/ CallEqual
    \/ CallString

Spec == Init /\ [][Next]_vars

(* ------------------------------ properties ---------------------------- *)

\* same presence and, when present, the same wrapped value
SameOption(a, b) ==
    /\ a.present = b.present
    /\ a.present => a.value = b.value

\* C1: in every reachable state an Option whose present flag is false holds
\* the zero value of T
C1_AbsentHoldsZero == ~o.present => o.value = Zero(T)

\* C2: Unwrap returns exactly the wrapped value when o is present and panics
\* without a value when o is None; IsPresent is the flag and IsNone its negation
C2_UnwrapContract ==
    /\ ret.op = "Unwrap" =>
          IF o.present
          THEN ~ret.out.panic /\ ret.out.val = o.value
          ELSE ret.out.panic /\ ret.out.val = NilIface
    /\ ret.op = "IsPresent" => (ret.out.b <=> o.present)
    /\ ret.op = "IsNone" => (ret.out.b <=> ~o.present)

\* Unwrap has panicked on a None that still stores a value other than zero
C2_Witness ==
    /\ ret.op = "Unwrap"
    /\ ~o.present
    /\ o.value # Zero(T)
    /\ ret.out.panic

\* C3: UnwrapOr(d) is the wrapped value when present and d otherwise;
\* UnwrapOrZero() is the wrapped value when present and the zero value of T
\* otherwise
C3_FallbackAccessors ==
    /\ ret.op = "UnwrapOr" =>
          ret.out.val = IF o.present THEN o.value ELSE ret.arg.defaultValue
    /\ ret.op = "UnwrapOrZero" =>
          ret.out.val = IF o.present THEN o.value ELSE Zero(T)

\* C4: MarshalJSON of None is null and of New(v) the encoding of v alone;
\* UnmarshalJSON of null makes the receiver None, of a well-formed value for T
\* New(decoded value), and of anything else returns an error wrapping json's
C4_JSONAsPointer ==
    /\ ret.op = "MarshalJSON" =>
          IF ret.arg.o.present
          THEN ret.out = JsonMarshal(ret.arg.o.value)
          ELSE ret.out = Encoded(JNull)
    /\ ret.op = "UnmarshalJSON" =>
          LET bytes == ret.arg.bytes
          IN  IF bytes = JNull
              THEN o = [present |-> FALSE, value |-> Zero(T)] /\ ret.out.err = NoErr
              ELSE IF bytes # JBad /\ JsonDecode(T, bytes).err = ""
              THEN /\ o = [present |-> TRUE, value |-> JsonDecode(T, bytes).val]
                   /\ ret.out.err = NoErr
              ELSE /\ IsErr(ret.out.err)
                   /\ ret.out.err.wraps \in {"SyntaxError", "UnmarshalTypeError"}
                   /\ bytes = JBad <=> ret.out.err.wraps = "SyntaxError"

\* a JSON array has been decoded into a present Option
C4_Witness ==
    /\ ret.op = "UnmarshalJSON"
    /\ ret.arg.bytes.j = "arr"
    /\ Len(ret.arg.bytes.a) > 0
    /\ o.present
    /\ ret.out.err = NoErr

\* the payload types the round-trip claims name
Representable == {"int64", "int", "float64", "string", "slice"}

RoundTrips(x) ==
    /\ x # NilSlice
    /\ x.t = "string" => ToValidUTF8(x.v) = x.v

ScanOutcome(Narrows(_)) ==
    ret.op = "Scan" =>
        LET src == ret.arg.src
            c   == ConvertValue(src)
        IN  IF src = NilIface
            THEN o = [present |-> FALSE, value |-> Zero(T)] /\ ret.out.err = NoErr
            ELSE IF c.err # "" \/ ~Narrows(c.val)
            THEN /\ IsErr(ret.out.err)
                 /\ T # "any" => ret.out.err.typ = T
                 /\ c.err = "" => ret.out.err.val = c.val
                 /\ c.err # "" => ret.out.err.wraps = c.err
            ELSE o = [present |-> TRUE, value |-> c.val] /\ ret.out.err = NoErr

ExactlyT(x) == x.t = T

AssertableToT(x) == IF T = "any" THEN x # NilIface ELSE x.t = T

ValueContract ==
    ret.op = "Value" =>
        /\ ret.out.err = NoErr
        /\ ret.out.val = IF o.present THEN o.value ELSE NilIface

\* C7 as stated: Value() as above, and scanning the value bound from an
\* Option gives that Option back, for every payload
C7_SQLRoundTrip ==
    /\ ValueContract
    /\ (ret.op = "Scan" /\ ret.arg.from # <<>>) =>
          /\ ret.out.err = NoErr
          /\ SameOption(o, ret.arg.from[1])

\* C7 amended: Value() as above, and scanning the value bound from an Option
\* gives that Option back when T is a type the driver passes through unchanged
C7_SQLRoundTripAmended ==
    /\ ValueContract
    /\ (ret.op = "Scan" /\ ret.arg.from # <<>> /\ T \in DriverTypes) =>
          /\ ret.out.err = NoErr
          /\ SameOption(o, ret.arg.from[1])

\* the value bound from a present Option has been scanned back
C7_Witness ==
    /\ ret.op = "Scan"
    /\ ret.arg.from # <<>>
    /\ T \in DriverTypes
    /\ ret.arg.from[1].present
    /\ o = ret.arg.from[1]
    /\ ret.out.err = NoErr

\* a value with pointers replaced by what they point to
Content(x) ==
    IF x.t # "ptr" THEN x
    ELSE IF x = NilPtr THEN [t |-> "ptr", v |-> <<"nil", 0>>]
    ELSE [t |-> "ptr", v |-> <<"to", Pointee(x).v>>]

\* structural equality: the same content, a NaN being equal to nothing
SameStructure(x, y) == Content(x) = Content(y) /\ x # NaN

\* C8: Equal is true for two Nones, false when exactly one side is present,
\* and for two present Options true iff the wrapped values are structurally
\* equal; Equal(a, b) = Equal(b, a)
C8_EqualContract ==
    ret.op = "Equal" =>
        LET a == o
            b == ret.arg.other
        IN  /\ (~a.present /\ ~b.present) => ret.out.b
            /\ a.present # b.present => ~ret.out.b
            /\ (a.present /\ b.present) =>
                  (ret.out.b <=> SameStructure(a.value, b.value))
            /\ ret.out.b = ret.out.flipped

\* two distinct pointers to equal values have compared equal
C8_Witness ==
    /\ ret.op = "Equal"
    /\ T = "ptr"
    /\ o.present
    /\ ret.arg.other.present
    /\ o.value # ret.arg.other.value
    /\ o.value # NilPtr
    /\ ret.out.b

\* C9 as stated: x.Equal(x) is true for any Option x
C9_EqualReflexive ==
    (ret.op = "Equal" /\ ret.arg.other = o) => ret.out.b

\* C9 amended: x.Equal(x) is true for any None x and any present x whose
\* payload is not NaN
C9_EqualReflexiveAmended ==
    (ret.op = "Equal" /\ ret.arg.other = o /\ ~(o.present /\ o.value = NaN)) =>
        ret.out.b

\* a None that stores a value other than zero has been compared with itself
C9_Witness ==
    /\ ret.op = "Equal"
    /\ ret.arg.other = o
    /\ ~o.present
    /\ o.value # Zero(T)
    /\ ret.out.b

\* C10: Map(o, f) on None never invokes f and yields None of the target type;
\* on New(v) it invokes f exactly on v and yields New(f(v)); o is not changed
C10_MapContract ==
    ret.op = "Map" =>
        /\ ret.arg.o = o
        /\ IF o.present
           THEN /\ ret.out.calls = <<o.value>>
                /\ ret.out.res = [present |-> TRUE, value |-> Apply(ret.arg.f, o.value)]
           ELSE /\ ret.out.calls = <<>>
                /\ ret.out.res = [present |-> FALSE,
                                  value   |-> Zero(ResultType(ret.arg.f, T))]

\* Map has passed over a None that still stores a value other than zero
C10_Witness ==
    /\ ret.op = "Map"
    /\ ~o.present
    /\ o.value # Zero(T)
    /\ ret.out.calls = <<>>
    /\ ~ret.out.res.present

\* the result the call recorded in ret would have had on the Option opt
ResultOn(opt) ==
    CASE ret.op = "IsPresent"    -> [b |-> IsPresent(opt)]
      [] ret.op = "IsNone"       -> [b |-> IsNone(opt)]
      [] ret.op = "Unwrap"       -> Unwrap(opt)
      [] ret.op = "UnwrapOr"     -> [val |-> UnwrapOr(opt, ret.arg.defaultValue)]
      [] ret.op = "UnwrapOrZero" -> [val |-> UnwrapOrZero(opt)]
      [] ret.op = "Pointer"      -> [ptr |-> Pointer(opt)]
      [] ret.op = "Map"          -> Map(T, opt, ret.arg.f)
      [] ret.op = "String"       -> [s |-> String(opt)]
      [] ret.op = "MarshalJSON"  -> MarshalJSON(opt)
      [] ret.op = "Value"        -> Value(opt)
      [] ret.op = "Equal"        ->
            [b |-> Equal(opt, ret.arg.other), flipped |-> Equal(ret.arg.other, opt)]

\* on an absent o, every call among ops gave the result it gives on the
\* absent Option that differs from o only in the stored value
FlagDecides(ops) ==
    (~o.present /\ ret.op \in ops) =>
        /\ ret.out = ResultOn(o)
        /\ ret.out = ResultOn([present |-> FALSE, value |-> Zero(T)])

\* C11: every operation on an absent Option (IsPresent, IsNone, Unwrap,
\* UnwrapOr, UnwrapOrZero, Pointer, Map, String, MarshalJSON, Value, Equal)
\* decides on the present flag alone: its result is the same for two absent
\* instances that differ only in the stored value
C11_FlagDecides ==
    FlagDecides({"IsPresent", "IsNone", "Unwrap", "UnwrapOr", "UnwrapOrZero",
                 "Pointer", "Map", "String", "MarshalJSON", "Value", "Equal"})

\* C12: a failed adapter call leaves the receiver unchanged: whenever
\* UnmarshalJSON or Scan returns an error, o has the same present flag and
\* the same wrapped value as before the call
C12_FailedCallKeepsReceiver ==
    [][(ret'.op \in {"UnmarshalJSON", "Scan"} /\ IsErr(ret'.out.err)) => o' = o]_vars

\* an adapter call has failed on a present receiver, which is still present
C12_Witness ==
    /\ ret.op \in {"UnmarshalJSON", "Scan"}
    /\ IsErr(ret.out.err)
    /\ o.present
    /\ o.value # Zero(T)

====
